---- MODULE Spec2Model ----
(***************************************************************************)
(* Fletcher checksum engine of the `fletcher` crate (src/src/lib.rs),      *)
(* instantiated as Fletcher16 = Fletcher<u16>: 8-bit input words folded    *)
(* into two u16 accumulators.                                              *)
(*                                                                         *)
(* The state is one engine (a, b) together with the record of how it was   *)
(* constructed and which words have been passed to update so far.  Every   *)
(* public operation of the engine is one action.                           *)
(***************************************************************************)
EXTENDS Integers, Naturals, Sequences, FiniteSets, TLC

(***************************************************************************)
(* Bounds of the exploration.                                              *)
(***************************************************************************)
\* longest arbitrary word sequence passed to one update call
MaxShort == 1
\* a long input is MAX_CHUNK_SIZE * c + r copies of one word, c in 1..MaxChunks
MaxChunks == 2
\* ... and r in 0..MaxRem
MaxRem == 1
\* update calls made on one engine
MaxCalls == 2

\* sample input words (u8): zero, one, all-ones
Words == {0, 1, 255}
\* the words long inputs are made of: all-zero and all-ones
LongWords == {0, 255}
\* the words given to with_initial_values
InitWords == {1, 255}

(***************************************************************************)
(* impl FletcherAccumulator for u16                                        *)
(***************************************************************************)
BIT_MASK == 255
\* mutant: a chunk one word longer than the accumulator allows
MAX_CHUNK_SIZE_one_more == 21 + 1
MAX_CHUNK_SIZE == 21
SHIFT_AMOUNT == 8

\* u16::MAX, the largest value of the accumulator type T = u16
T_MAX == (2 ^ (2 * SHIFT_AMOUNT)) - 1
\* u8::MAX, the largest value of T::InputType = u8
INPUT_MAX == (2 ^ SHIFT_AMOUNT) - 1

\* <u16 as Default>::default()
default == 0

(***************************************************************************)
(* Arithmetic of the accumulator type.  `+` on u16 wraps in a release      *)
(* build and panics in a debug build; Add is the wrapping sum and          *)
(* AddOverflows tells whether the mathematical sum left the u16 range.     *)
(***************************************************************************)
Add(x, y) == (x + y) % (T_MAX + 1)
AddOverflows(x, y) == x + y > T_MAX

\* `-` on u16: wraps in a release build, panics in a debug build
Sub(x, y) == (x - y) % (T_MAX + 1)
SubUnderflows(x, y) == y > x

\* value & T::BIT_MASK  (BIT_MASK = 2^SHIFT_AMOUNT - 1 selects the low half)
BitAndMask(value) == value % (BIT_MASK + 1)
\* value >> T::SHIFT_AMOUNT
Shr(value) == value \div (2 ^ SHIFT_AMOUNT)
\* value << T::SHIFT_AMOUNT, bits shifted out of the u16 are dropped
Shl(value) == (value * (2 ^ SHIFT_AMOUNT)) % (T_MAX + 1)

\* bitwise or of two naturals
RECURSIVE BitOr(_, _)
BitOr(x, y) ==
    IF x = 0 THEN y
    ELSE IF y = 0 THEN x
    ELSE (IF (x % 2 = 1) \/ (y % 2 = 1) THEN 1 ELSE 0)
         + 2 * BitOr(x \div 2, y \div 2)

(***************************************************************************)
(* Fletcher::reduce                                                        *)
(***************************************************************************)
\* mutant: the fold without the rule that 2^W - 1 stands for 0
reduce_no_fold(value) ==
    LET lhs == BitAndMask(value)
        rhs == Shr(value)
    IN  Add(lhs, rhs)

reduce(value) ==
    LET lhs == BitAndMask(value)
        rhs == Shr(value)
        result == Add(lhs, rhs)
    IN  IF result = BIT_MASK THEN default ELSE result

\* whether the addition inside reduce leaves the u16 range
reduce_overflows(value) == AddOverflows(BitAndMask(value), Shr(value))

(***************************************************************************)
(* Fletcher::combine and Fletcher::value                                   *)
(***************************************************************************)
combine(lower, upper) == BitOr(lower, Shl(upper))

value(self) == combine(self.a, self.b)

(***************************************************************************)
(* Fletcher::new and Fletcher::with_initial_values                         *)
(***************************************************************************)
\* mutant: both accumulators start at 2^W - 1
new_bit_mask == [a |-> BIT_MASK, b |-> BIT_MASK]

new == [a |-> default, b |-> default]

\* mutant: the two initial words are stored the wrong way round
with_initial_values_swapped(a0, b0) == [a |-> b0, b |-> a0]

with_initial_values(a0, b0) == [a |-> a0, b |-> b0]

(***************************************************************************)
(* Fletcher::update.  The engine record carries `ovf`, which is TRUE once  *)
(* some addition of the call left the u16 range.                           *)
(***************************************************************************)
\* mutant: intermediate_b += intermediate_a is done before
\* intermediate_a += element
RECURSIVE chunk_loop_b_first(_, _, _, _, _)
chunk_loop_b_first(intermediate_a, intermediate_b, o, chunk, i) ==
    IF i > Len(chunk)
    THEN [a |-> intermediate_a, b |-> intermediate_b, ovf |-> o]
    ELSE LET next_b == Add(intermediate_b, intermediate_a)
             next_a == Add(intermediate_a, chunk[i])
         IN  IF \/ AddOverflows(intermediate_a, chunk[i])
                \/ AddOverflows(intermediate_b, intermediate_a)
                \/ o
             THEN chunk_loop_b_first(next_a, next_b, TRUE, chunk, i + 1)
             ELSE chunk_loop_b_first(next_a, next_b, FALSE, chunk, i + 1)

\* for element in chunk { intermediate_a += element; intermediate_b += intermediate_a }
\* from element number i on; ovf is TRUE once an addition has left the u16 range
RECURSIVE chunk_loop(_, _, _, _, _)
chunk_loop(intermediate_a, intermediate_b, o, chunk, i) ==
    IF i > Len(chunk)
    THEN [a |-> intermediate_a, b |-> intermediate_b, ovf |-> o]
    ELSE LET next_a == Add(intermediate_a, chunk[i])
             next_b == Add(intermediate_b, next_a)
         IN  IF \/ AddOverflows(intermediate_a, chunk[i])
                \/ AddOverflows(intermediate_b, next_a)
                \/ o
             THEN chunk_loop(next_a, next_b, TRUE, chunk, i + 1)
             ELSE chunk_loop(next_a, next_b, FALSE, chunk, i + 1)

\* mutant: the chunk's total for b is stored without being reduced
process_chunk_b_not_reduced(self, chunk) ==
    LET acc == chunk_loop(self.a, self.b, self.ovf, chunk, 1)
    IN  [a |-> reduce(acc.a), b |-> acc.b,
         ovf |-> acc.ovf \/ reduce_overflows(acc.a)]

\* one iteration of `for chunk in data.chunks(MAX_CHUNK_SIZE)`
process_chunk(self, chunk) ==
    LET acc == chunk_loop(self.a, self.b, self.ovf, chunk, 1)
    IN  [a |-> reduce(acc.a), b |-> reduce(acc.b),
         ovf |-> \/ acc.ovf
                 \/ reduce_overflows(acc.a)
                 \/ reduce_overflows(acc.b)]

\* data.chunks(MAX_CHUNK_SIZE), walked from word number `start`
RECURSIVE chunks_loop(_, _, _)
chunks_loop(self, data, start) ==
    IF start > Len(data) THEN self
    ELSE LET last == IF start + MAX_CHUNK_SIZE - 1 < Len(data)
                     THEN start + MAX_CHUNK_SIZE - 1 ELSE Len(data)
             stored == process_chunk(self, SubSeq(data, start, last))
         IN  IF stored.ovf
             THEN chunks_loop([stored EXCEPT !.ovf = TRUE], data, last + 1)
             ELSE chunks_loop(stored, data, last + 1)

\* mutant: the reduction after the chunk loop is left out
update_no_final_reduce(self, data) ==
    chunks_loop([a |-> self.a, b |-> self.b, ovf |-> FALSE], data, 1)

\* mutant: the reduction after the chunk loop is done for a only
update_final_reduce_a_only(self, data) ==
    LET s == chunks_loop([a |-> self.a, b |-> self.b, ovf |-> FALSE], data, 1)
    IN  [a |-> reduce(s.a), b |-> s.b,
         ovf |-> s.ovf \/ reduce_overflows(s.a)]

update(self, data) ==
    LET s == chunks_loop([a |-> self.a, b |-> self.b, ovf |-> FALSE], data, 1)
    IN  [a |-> reduce(s.a), b |-> reduce(s.b),
         ovf |-> \/ s.ovf
                 \/ reduce_overflows(s.a)
                 \/ reduce_overflows(s.b)]

(***************************************************************************)
(* Fletcher::check_values.  `fail` is TRUE when a subtraction underflows,  *)
(* an addition overflows or try_into().unwrap() is given a value that does *)
(* not fit the input word.                                                 *)
(***************************************************************************)
\* mutant: the second check value is derived from b instead of a
check_values_from_b(self) ==
    LET checksum_a == Sub(BIT_MASK, reduce(Add(self.a, self.b)))
        checksumb_b == Sub(BIT_MASK, reduce(Add(self.b, checksum_a)))
    IN  [c |-> <<checksum_a, checksumb_b>>,
         fail |-> \/ AddOverflows(self.a, self.b)
                  \/ SubUnderflows(BIT_MASK, reduce(Add(self.a, self.b)))
                  \/ AddOverflows(self.b, checksum_a)
                  \/ SubUnderflows(BIT_MASK, reduce(Add(self.b, checksum_a)))
                  \/ checksum_a > INPUT_MAX
                  \/ checksumb_b > INPUT_MAX]

\* mutant: the second check value is taken from a + c1 without reducing it
check_values_no_reduce(self) ==
    LET checksum_a == Sub(BIT_MASK, reduce(Add(self.a, self.b)))
        checksumb_b == Sub(BIT_MASK, Add(self.a, checksum_a))
    IN  [c |-> <<checksum_a, checksumb_b>>,
         fail |-> \/ AddOverflows(self.a, self.b)
                  \/ SubUnderflows(BIT_MASK, reduce(Add(self.a, self.b)))
                  \/ AddOverflows(self.a, checksum_a)
                  \/ SubUnderflows(BIT_MASK, Add(self.a, checksum_a))
                  \/ checksum_a > INPUT_MAX
                  \/ checksumb_b > INPUT_MAX]

check_values(self) ==
    LET checksum_a == Sub(BIT_MASK, reduce(Add(self.a, self.b)))
        checksumb_b == Sub(BIT_MASK, reduce(Add(self.a, checksum_a)))
    IN  [c |-> <<checksum_a, checksumb_b>>,
         fail |-> \/ AddOverflows(self.a, self.b)
                  \/ SubUnderflows(BIT_MASK, reduce(Add(self.a, self.b)))
                  \/ AddOverflows(self.a, checksum_a)
                  \/ SubUnderflows(BIT_MASK, reduce(Add(self.a, checksum_a)))
                  \/ checksum_a > INPUT_MAX
                  \/ checksumb_b > INPUT_MAX]

(***************************************************************************)
(* calc_fletcher16 and checkvalues_fletcher16                              *)
(***************************************************************************)
calc_fletcher16(data) == value(update(new, data))

checkvalues_fletcher16(data) == check_values(update(new, data)).c

(***************************************************************************)
(* Inputs of update                                                        *)
(***************************************************************************)
Rep(w, n) == [i \in 1..n |-> w]

ShortInputs == UNION {[1..n -> Words] : n \in 0..MaxShort}

LongInputs == {Rep(w, MAX_CHUNK_SIZE * c + r) :
                   w \in LongWords, c \in 1..MaxChunks, r \in 0..MaxRem}

Inputs == ShortInputs \cup LongInputs

(***************************************************************************)
(* State                                                                   *)
(***************************************************************************)
VARIABLES
    a,       \* Fletcher.a
    b,       \* Fletcher.b
    ctor,    \* how the engine was constructed, with its initial words
    fed,     \* every word passed to update since the first construction
    data,    \* argument of the latest update call
    op,      \* the latest operation
    calls,   \* number of update calls so far
    ovf,     \* some addition of an update call has left the u16 range
    intermediate_value  \* the checksum the engine was rebuilt from, if it was

vars == <<a, b, ctor, fed, data, op, calls, ovf, intermediate_value>>

engine == [a |-> a, b |-> b]

\* the engine as its constructor returned it
constructed ==
    IF ctor.kind = "with_initial_values"
    THEN with_initial_values(ctor.a0, ctor.b0)
    ELSE new

\* let mut checksum = Fletcher16::new();
InitNew ==
    /\ a = new.a
    /\ b = new.b
    /\ ctor = [kind |-> "new", a0 |-> new.a, b0 |-> new.b]
    /\ op = "new"

\* let mut checksum = Fletcher16::with_initial_values(a0, b0);
InitWith(a0, b0) ==
    /\ a = with_initial_values(a0, b0).a
    /\ b = with_initial_values(a0, b0).b
    /\ ctor = [kind |-> "with_initial_values", a0 |-> a0, b0 |-> b0]
    /\ op = "with_initial_values"

Init ==
    /\ InitNew \/ \E a0 \in InitWords, b0 \in InitWords : InitWith(a0, b0)
    /\ fed = <<>>
    /\ data = <<>>
    /\ calls = 0
    /\ ovf = FALSE
    /\ intermediate_value = 0

\* checksum.update(d)
UpdateWith(d, name) ==
    /\ calls < MaxCalls
    /\ LET s == update(engine, d)
       IN  /\ a' = s.a
           /\ b' = s.b
           /\ ovf' = (ovf \/ s.ovf)
    /\ fed' = fed \o d
    /\ data' = d
    /\ op' = name
    /\ calls' = calls + 1
    /\ UNCHANGED <<ctor, intermediate_value>>

Update == \E d \in Inputs : UpdateWith(d, "update")

\* let cv = checksum.check_values(); checksum.update(&cv);
\* check_values panics instead of returning when it fails
UpdateCheckValues ==
    /\ ~check_values(engine).fail
    /\ UpdateWith(check_values(engine).c, "update_check_values")

\* test::fletcher16_initial_value: the engine is rebuilt from the two halves
\* of its current checksum, each narrowed to a u8 by `as u8`
Resume ==
    /\ ctor.kind = "new"
    /\ calls >= 1
    /\ LET v == value(engine)
           s == with_initial_values(BitAndMask(v), Shr(v) % (INPUT_MAX + 1))
       IN  /\ a' = s.a
           /\ b' = s.b
           /\ intermediate_value' = v
    /\ ctor' = [ctor EXCEPT !.kind = "resumed"]
    /\ op' = "resume"
    /\ UNCHANGED <<fed, data, calls, ovf>>

Next ==
    \/ Update
    \/ UpdateCheckValues
    \/ Resume

Spec == Init /\ [][Next]_vars

TypeOK ==
    /\ a \in 0..T_MAX
    /\ b \in 0..T_MAX
    /\ calls \in 0..MaxCalls
    /\ ovf \in BOOLEAN

\* the latest operation was an update call
Updated == op \in {"update", "update_check_values"}

(***************************************************************************)
(* The textbook Fletcher-16: one word at a time, a = (a + w) mod 255 and   *)
(* b = (b + a) mod 255 from a = b = 0, the checksum being b * 256 + a.     *)
(* Textbook(words, lo, hi, p) is the pair <<a, b>> that the words numbered *)
(* lo..hi, taken in order, make of the pair p.                             *)
(***************************************************************************)
RECURSIVE Textbook(_, _, _, _)
Textbook(words, lo, hi, p) ==
    IF lo > hi THEN p
    ELSE IF lo = hi
    THEN LET ta == (p[1] + words[lo]) % BIT_MASK
             tb == (p[2] + ta) % BIT_MASK
         IN  <<ta, tb>>
    ELSE LET mid == (lo + hi) \div 2
             q == Textbook(words, lo, mid, p)
         IN  \* the test has the first half evaluated before the second
             IF q[1] < BIT_MASK THEN Textbook(words, mid + 1, hi, q) ELSE q

TextbookChecksum(words) ==
    LET p == Textbook(words, 1, Len(words), <<0, 0>>)
    IN  p[2] * (2 ^ SHIFT_AMOUNT) + p[1]

(***************************************************************************)
(* Claims                                                                  *)
(***************************************************************************)

\* C1: check-value round trip.  When an engine that has been updated is
\* updated with its own check_values(), its value() is 0; and for an engine
\* made by new(), the one-shot checksum of data ++ checkvalues(data) is 0,
\* data being all the words fed before the check values.
C1_CheckValueRoundTrip ==
    (op = "update_check_values" /\ calls >= 2) =>
        /\ value(engine) = 0
        /\ ctor.kind = "new" =>
              LET d == SubSeq(fed, 1, Len(fed) - 2)
              IN  /\ data = checkvalues_fletcher16(d)
                  /\ calc_fletcher16(d \o checkvalues_fletcher16(d)) = 0

\* C1 witness: check values appended after a multi-chunk update
C1_Witness ==
    /\ op = "update_check_values"
    /\ calls >= 2
    /\ ctor.kind = "new"
    /\ Len(fed) > MAX_CHUNK_SIZE + 2
    /\ value(engine) = 0

\* C2: additivity of update.  The state after any sequence of update calls
\* is the state a single update call on the concatenation of their inputs
\* gives to a freshly constructed engine.
C2_Additivity ==
    (calls >= 1 /\ ctor.kind \in {"new", "with_initial_values"}) =>
        LET s == update(constructed, fed)
        IN  a = s.a /\ b = s.b

\* C2 witness: an engine made by with_initial_values, updated with one word
\* more than a chunk and then with a single word
C2_Witness ==
    /\ calls = 2
    /\ op = "update"
    /\ ctor.kind = "with_initial_values"
    /\ Len(data) = 1
    /\ Len(fed) = MAX_CHUNK_SIZE + 2
    /\ a # 0

C4_NoOverflow == ovf = FALSE

\* C4 witness: an engine started at a = b = 2^W - 1 and updated with more
\* than two chunks of all-ones words, then updated again
C4_Witness ==
    /\ calls = 2
    /\ ctor = [kind |-> "with_initial_values", a0 |-> BIT_MASK, b0 |-> BIT_MASK]
    /\ Len(fed) > 3 * MAX_CHUNK_SIZE
    /\ \A i \in 1..Len(fed) : fed[i] = BIT_MASK
    /\ ovf = FALSE

\* C5: after update returns both accumulators are at most 2^W - 1, and
\* value() holds a in its low W bits and b in its high W bits.
C5_PostUpdateRange ==
    Updated =>
        /\ a \in 0..BIT_MASK
        /\ b \in 0..BIT_MASK
        /\ value(engine) % (2 ^ SHIFT_AMOUNT) = a
        /\ value(engine) \div (2 ^ SHIFT_AMOUNT) = b

\* C5 witness: an update with a multi-chunk input that leaves non-zero
\* accumulators
C5_Witness ==
    /\ op = "update"
    /\ Len(data) > MAX_CHUNK_SIZE
    /\ a # 0
    /\ b # 0

\* C6 (as the claim states it): update([]) leaves (a, b) unchanged.
C6_EmptyUpdateIsNoOp ==
    [][(op' = "update" /\ data' = <<>> /\ calls' = calls + 1)
          => (a' = a /\ b' = b)]_vars

\* C7: an engine rebuilt by with_initial_values from the two halves of the
\* checksum v of a fresh engine after update(d1) has value() = v at once,
\* and after update(d2) its value() is the checksum of d1 ++ d2 computed
\* from the default state.
C7_Resume ==
    /\ op = "resume" => value(engine) = intermediate_value
    /\ (ctor.kind = "resumed" /\ Updated) =>
           value(engine) = calc_fletcher16(fed)

\* C7 witness: a rebuilt engine with a non-zero checksum, updated again
C7_Witness ==
    /\ ctor.kind = "resumed"
    /\ op = "update"
    /\ intermediate_value # 0
    /\ data # <<>>
    /\ value(engine) # intermediate_value

C9_CheckValuesNeverFails ==
    /\ ~check_values(engine).fail
    /\ check_values(engine).c[1] \in 0..BIT_MASK
    /\ check_values(engine).c[2] \in 0..BIT_MASK

\* C9 witness: check_values was called on an engine whose accumulators were
\* both 2^W - 1, and returned
C9_Witness ==
    /\ op = "update_check_values"
    /\ calls = 1
    /\ ctor = [kind |-> "with_initial_values", a0 |-> BIT_MASK, b0 |-> BIT_MASK]
    /\ data = check_values(constructed).c

issue_8_data == <<6, 131, 13, 0, 197, 24, 229, 8, 239, 17>>
wiki_example_data == <<1, 2, 248, 4>>

Replaced(words, from, to) ==
    [i \in 1..Len(words) |-> IF words[i] = from THEN to ELSE words[i]]

\* C12: zero / all-ones indistinguishability.  The state of an engine made
\* by new() after its updates is the state the same words give with every
\* all-ones word replaced by an all-zero word, and with every all-zero word
\* replaced by an all-ones word; so runs that differ only in 0 versus
\* 2^W - 1 words end in the same state.
C12_ZeroOnesIndistinguishable ==
    (ctor.kind = "new" /\ Updated) =>
        LET z == update(new, Replaced(fed, BIT_MASK, 0))
            o == update(new, Replaced(fed, 0, BIT_MASK))
        IN  /\ a = z.a /\ b = z.b
            /\ a = o.a /\ b = o.b
            /\ value(engine) = value(z)
            /\ value(engine) = value(o)

\* C12 witness: a fresh engine fed all-ones and other words, more than a
\* chunk of them, with a non-zero checksum
C12_Witness ==
    /\ ctor.kind = "new"
    /\ op = "update"
    /\ Len(fed) > MAX_CHUNK_SIZE
    /\ \E i \in 1..Len(fed) : fed[i] = BIT_MASK
    /\ \E i \in 1..Len(fed) : fed[i] \notin {0, BIT_MASK}
    /\ value(engine) # 0

\* the number of chunks data.chunks(MAX_CHUNK_SIZE) yields
NumChunks(d) == (Len(d) + MAX_CHUNK_SIZE - 1) \div MAX_CHUNK_SIZE

\* self.a and self.b as update(self, d) stores them at the end of its k-th
\* chunk, before the reduction that follows the chunk loop
StoredAfterChunk(self, d, k) ==
    LET n == IF k * MAX_CHUNK_SIZE < Len(d) THEN k * MAX_CHUNK_SIZE ELSE Len(d)
    IN  chunks_loop([a |-> self.a, b |-> self.b, ovf |-> FALSE],
                    SubSeq(d, 1, n), 1)

\* the step is an update call
UpdateStep == Updated' /\ calls' = calls + 1

\* C13 (as the claim states it): after the one reduce at the end of any chunk
\* both stored accumulators are at most 2^W - 1, so every chunk begins from
\* fully reduced accumulators.
C13_OneReduceFullyReduces ==
    [][UpdateStep =>
          \A k \in 1..NumChunks(data') :
              /\ StoredAfterChunk(engine, data', k).a <= BIT_MASK
              /\ StoredAfterChunk(engine, data', k).b <= BIT_MASK]_vars

\* C13 (amended): after the one reduce at the end of any chunk both stored
\* accumulators are at most 2 * (2^W - 1), which is what a later chunk of the
\* same call begins from; after the reduction that follows the chunk loop
\* they are at most 2^W - 1.
C13_OneReduceBound ==
    [][UpdateStep =>
          /\ \A k \in 1..NumChunks(data') :
                /\ StoredAfterChunk(engine, data', k).a <= 2 * BIT_MASK
                /\ StoredAfterChunk(engine, data', k).b <= 2 * BIT_MASK
          /\ a' <= BIT_MASK
          /\ b' <= BIT_MASK]_vars

\* C13 witness: an update call of two chunks whose first chunk left a above
\* 2^W - 1 for the second chunk to begin from
C13_Witness ==
    /\ calls = 1
    /\ op = "update"
    /\ NumChunks(data) = 2
    /\ StoredAfterChunk(constructed, data, 1).a > BIT_MASK
    /\ a <= BIT_MASK

\* C14: MAX_CHUNK_SIZE is maximal.  A chunk that starts from a = b = 2^W - 1
\* and adds at most MAX_CHUNK_SIZE words of any value leaves both working
\* totals within 2^(2W) - 1, and a chunk of MAX_CHUNK_SIZE + 1 words that are
\* all 2^W - 1 takes a working total above 2^(2W) - 1.
C14_MaxChunkSizeIsMaximal ==
    /\ ( /\ ctor = [kind |-> "with_initial_values",
                    a0 |-> BIT_MASK, b0 |-> BIT_MASK]
         /\ calls = 1
         /\ Updated
         /\ Len(data) <= MAX_CHUNK_SIZE ) => ~ovf
    /\ \A w \in Words :
          LET t == chunk_loop(BIT_MASK, BIT_MASK, FALSE,
                              Rep(w, MAX_CHUNK_SIZE), 1)
          IN  ~t.ovf /\ t.a <= T_MAX /\ t.b <= T_MAX
    /\ chunk_loop(BIT_MASK, BIT_MASK, FALSE,
                  Rep(BIT_MASK, MAX_CHUNK_SIZE + 1), 1).ovf

\* C14 witness: an engine started at a = b = 2^W - 1 has taken exactly
\* MAX_CHUNK_SIZE all-ones words in one chunk without overflow
C14_Witness ==
    /\ ctor = [kind |-> "with_initial_values", a0 |-> BIT_MASK, b0 |-> BIT_MASK]
    /\ calls = 1
    /\ op = "update"
    /\ data = Rep(BIT_MASK, MAX_CHUNK_SIZE)
    /\ ~ovf

\* impl FletcherAccumulator<u16> for u32: the constants of Fletcher32
u32_BIT_MASK == 65535
u32_MAX_CHUNK_SIZE == 360

\* intermediate_b after a chunk of n words that are all 2^W - 1, begun from
\* a = b = 2^W - 1: (2^W - 1) * (1 + n + n(n+1)/2)
AllOnesTotal(n) == BIT_MASK * (1 + (n * (n + 3)) \div 2)

\* the first chunk of the update call that led to this state
first_chunk ==
    SubSeq(data, 1, IF Len(data) < MAX_CHUNK_SIZE THEN Len(data)
                                                  ELSE MAX_CHUNK_SIZE)

\* floor((2^(2W) - 1 - (2^W - 1)) / (2^W - 1)) for W = 8
StatedChunkSize == (T_MAX - BIT_MASK) \div BIT_MASK

\* C15 (as the claim states it): the constant used by the engine equals
\* floor((2^(2W) - 1 - (2^W - 1)) / (2^W - 1)), here for W = 8, so an update
\* call splits its data into chunks of that many words.
C15_StatedDerivation ==
    /\ Updated =>
          NumChunks(data) = (Len(data) + StatedChunkSize - 1) \div StatedChunkSize
    /\ StatedChunkSize = MAX_CHUNK_SIZE

\* C15 (amended): MAX_CHUNK_SIZE is the largest n for which a chunk of n
\* words that are all 2^W - 1, begun from a = b = 2^W - 1, keeps
\* intermediate_b = (2^W - 1) * (1 + n(n+3)/2) within 2^(2W) - 1, that is the
\* largest n with n(n+3)/2 <= 2^W: 21 for W = 8 and 360 for W = 16.
C15_CountedDerivation ==
    /\ AllOnesTotal(MAX_CHUNK_SIZE) <= T_MAX
    /\ AllOnesTotal(MAX_CHUNK_SIZE + 1) > T_MAX
    /\ (MAX_CHUNK_SIZE * (MAX_CHUNK_SIZE + 3)) \div 2 <= BIT_MASK + 1
    /\ ((MAX_CHUNK_SIZE + 1) * (MAX_CHUNK_SIZE + 4)) \div 2 > BIT_MASK + 1
    /\ (u32_MAX_CHUNK_SIZE * (u32_MAX_CHUNK_SIZE + 3)) \div 2
          <= u32_BIT_MASK + 1
    /\ ((u32_MAX_CHUNK_SIZE + 1) * (u32_MAX_CHUNK_SIZE + 4)) \div 2
          > u32_BIT_MASK + 1
    /\ ( /\ ctor = [kind |-> "with_initial_values",
                    a0 |-> BIT_MASK, b0 |-> BIT_MASK]
         /\ calls = 1
         /\ Updated
         /\ \A i \in 1..Len(data) : data[i] = BIT_MASK )
       => LET t == chunk_loop(BIT_MASK, BIT_MASK, FALSE, first_chunk, 1)
          IN  /\ ~t.ovf
              /\ t.b = AllOnesTotal(Len(first_chunk))
              /\ t.b <= T_MAX

\* C15 witness: an engine started at a = b = 2^W - 1 has taken more than
\* MAX_CHUNK_SIZE all-ones words, so its first chunk had MAX_CHUNK_SIZE words
\* and reached the largest total the derivation allows
C15_Witness ==
    /\ ctor = [kind |-> "with_initial_values", a0 |-> BIT_MASK, b0 |-> BIT_MASK]
    /\ calls = 1
    /\ op = "update"
    /\ Len(data) > MAX_CHUNK_SIZE
    /\ \A i \in 1..Len(data) : data[i] = BIT_MASK
    /\ chunk_loop(BIT_MASK, BIT_MASK, FALSE, first_chunk, 1).b
          = AllOnesTotal(MAX_CHUNK_SIZE)
    /\ ~ovf

====
